---------------------------- MODULE Spec2Model ----------------------------
(***************************************************************************)
(* Model of CoReManager (corewaeasy.py): the run selection by lowest       *)
(* eccentricity, the channel selection by highest extraction radius, the   *)
(* directory scan that rebuilds the index 'downloaded', and the            *)
(* download_strains loop that materializes one simulation at a time.       *)
(*                                                                         *)
(* Strings whose characters matter (file names, channel names, simulation  *)
(* keys) are sequences of one-character strings.  A Python float is a      *)
(* record [nan, v]: v counts thousandths, nan marks not-a-number.          *)
(***************************************************************************)
EXTENDS Integers, Sequences, FiniteSets, TLC

VARIABLES
    downloaded,   \* self.downloaded: simkey -> run -> record
    disk,         \* the 'Rh*.txt' files under db_path
    meta,         \* id_eccentricity of each run's metadata.txt, per sim dir
    h5,           \* per simulation: raw HDF5 files and .git are present
    pc,           \* position inside download_strains
    simkeys,      \* the keys the loop of download_strains has still to visit
    skey,         \* loop variable of download_strains
    overwrite,    \* argument of download_strains
    keep_h5,      \* argument of download_strains
    runkey,       \* local of download_strains
    ecc,          \* local of download_strains
    data,         \* local of download_strains: the channel names of 'rh_22'
    ofile,        \* local of download_strains
    log,          \* the steps taken for the current key, in order
    raised,       \* the exception that left download_strains, or "none"
    done,         \* keys materialized since the manager was first built
    failed,       \* keys whose materialization raised since then
    frozen,       \* index, files and raw data as they were when the key was started
    nkeys,        \* number of keys handed to download_strains so far
    input,        \* argument of the function under test (function specs)
    output        \* its result (function specs)

vars == <<downloaded, disk, meta, h5, pc, simkeys, skey, overwrite, keep_h5,
          runkey, ecc, data, ofile, log, raised, done, failed, frozen, nkeys,
          input, output>>

-----------------------------------------------------------------------------
(* Bounds *)

\* runs per simulation: R01 .. R0<NumRuns>
NumRuns == 3

\* keys handed to download_strains in one behaviour, over all its calls
MaxKeys == 3

-----------------------------------------------------------------------------
(* Characters and strings *)

\* ord() of the characters that occur in the names
Ord(c) ==
    CASE c = "." -> 46
      [] c = "0" -> 48 [] c = "1" -> 49 [] c = "2" -> 50 [] c = "3" -> 51
      [] c = "4" -> 52 [] c = "5" -> 53 [] c = "6" -> 54 [] c = "7" -> 55
      [] c = "8" -> 56 [] c = "9" -> 57
      [] c = ":" -> 58
      [] c = "B" -> 66 [] c = "I" -> 73 [] c = "R" -> 82 [] c = "T" -> 84
      [] c = "_" -> 95
      [] c = "f" -> 102 [] c = "h" -> 104 [] c = "l" -> 108
      [] c = "m" -> 109 [] c = "n" -> 110 [] c = "r" -> 114
      [] c = "t" -> 116 [] c = "x" -> 120

Digits == <<"0", "1", "2", "3", "4", "5", "6", "7", "8", "9">>

IsDigit(c) == \E i \in 1..10 : Digits[i] = c

DigitVal(c) == (CHOOSE i \in 1..10 : Digits[i] = c) - 1

\* Python's str < str: code point order, a proper prefix is smaller
RECURSIVE StrLess(_, _)
StrLess(a, b) ==
    IF b = <<>> THEN FALSE
    ELSE IF a = <<>> THEN TRUE
    ELSE IF Head(a) # Head(b) THEN Ord(Head(a)) < Ord(Head(b))
    ELSE StrLess(Tail(a), Tail(b))

\* Python's 'sub in s'
Contains(s, sub) ==
    \E i \in 1..(Len(s) - Len(sub) + 1) :
        SubSeq(s, i, i + Len(sub) - 1) = sub

\* Python's s.replace(old, new) for one-character old and new
Replace(s, old, new) ==
    [i \in 1..Len(s) |-> IF s[i] = old THEN new ELSE s[i]]

\* Python's int(s) for a string of decimal digits; -1 stands for ValueError
RECURSIVE IntOf(_)
IntOf(s) ==
    IF s = <<>> THEN -1
    ELSE IF ~IsDigit(s[Len(s)]) THEN -1
    ELSE IF Len(s) = 1 THEN DigitVal(s[1])
    ELSE LET hi == IntOf(SubSeq(s, 1, Len(s) - 1))
         IN  IF hi = -1 THEN -1 ELSE 10 * hi + DigitVal(s[Len(s)])

\* Python's f'{n:05d}' for 0 <= n
RECURSIVE DecimalOf(_)
DecimalOf(n) ==
    IF n < 10 THEN <<Digits[n + 1]>>
    ELSE Append(DecimalOf(n \div 10), Digits[(n % 10) + 1])

RECURSIVE ZeroPad(_, _)
ZeroPad(s, width) == IF Len(s) >= width THEN s ELSE ZeroPad(<<"0">> \o s, width)

Format05d(n) == ZeroPad(DecimalOf(n), 5)

-----------------------------------------------------------------------------
(* Floats *)

NaN == [nan |-> TRUE, v |-> 0]

Num(v) == [nan |-> FALSE, v |-> v]

\* a < b on floats: false whenever one side is not-a-number
FloatLessEq(a, b) == ~a.nan /\ ~b.nan /\ a.v <= b.v

FloatLess(a, b) == ~a.nan /\ ~b.nan /\ a.v < b.v

\* the null value of an attribute
None == "<None>"

\* the numeric literals of the model and their values in thousandths
NumLiterals == {"0.0", "0.01", "0.010", "0.03", "0.05"}

LiteralValue(s) ==
    CASE s = "0.0" -> 0
      [] s = "0.01" -> 10
      [] s = "0.010" -> 10
      [] s = "0.03" -> 30
      [] s = "0.05" -> 50

\* Python's float(s): [err |-> TRUE] stands for ValueError
Float(s) ==
    IF s \in NumLiterals THEN [err |-> FALSE, f |-> Num(LiteralValue(s))]
    ELSE IF s \in {"NAN", "nan"} THEN [err |-> FALSE, f |-> NaN]
    ELSE [err |-> TRUE, f |-> NaN]

cast_to_float_strict(string) == Float(string)

cast_to_float(string) ==
    IF string \in {"", None} THEN [err |-> FALSE, f |-> NaN]
    ELSE Float(string)

-----------------------------------------------------------------------------
(* Run selection *)

RunNames == <<"R01", "R02", "R03", "R04", "R05">>

RunSeq == SubSeq(RunNames, 1, NumRuns)

RunSet == {RunSeq[i] : i \in 1..NumRuns}

RunIndex(r) == CHOOSE i \in 1..Len(RunNames) : RunNames[i] = r

\* the keys of a run mapping in the order the mapping iterates them
RECURSIVE KeysInOrder(_, _)
KeysInOrder(keys, i) ==
    IF i > Len(RunNames) THEN <<>>
    ELSE (IF RunNames[i] \in keys THEN <<RunNames[i]>> ELSE <<>>)
         \o KeysInOrder(keys, i + 1)

Selected(rk, e, seen) ==
    [run_key |-> rk, ecc |-> e, raised |-> FALSE, inspected |-> seen]

SelectRaised(seen) ==
    [run_key |-> "", ecc |-> NaN, raised |-> TRUE, inspected |-> seen]

\* the loop of get_runkey_lowest_eccentricity without its break
RECURSIVE ScanRunsNoBreak(_, _, _, _, _)
ScanRunsNoBreak(runs, rest, run_key, e, seen) ==
    IF rest = <<>> THEN Selected(run_key, e, seen)
    ELSE LET rkey  == Head(rest)
             ecc_i == cast_to_float(runs[rkey])
             seen1 == seen \cup {rkey}
         IN  IF ecc_i.err THEN SelectRaised(seen1)
             ELSE IF FloatLess(ecc_i.f, e)
                  THEN ScanRunsNoBreak(runs, Tail(rest), rkey, ecc_i.f, seen1)
             ELSE IF ecc_i.f.nan
                  THEN ScanRunsNoBreak(runs, Tail(rest), rkey, ecc_i.f, seen1)
             ELSE ScanRunsNoBreak(runs, Tail(rest), run_key, e, seen1)

\* the loop of get_runkey_lowest_eccentricity over the runs left after R01
RECURSIVE ScanRuns(_, _, _, _, _)
ScanRuns(runs, rest, run_key, e, seen) ==
    IF rest = <<>> THEN Selected(run_key, e, seen)
    ELSE LET rkey  == Head(rest)
             ecc_i == cast_to_float(runs[rkey])
             seen1 == seen \cup {rkey}
         IN  IF ecc_i.err THEN SelectRaised(seen1)
             ELSE IF FloatLess(ecc_i.f, e)
                  THEN ScanRuns(runs, Tail(rest), rkey, ecc_i.f, seen1)
             ELSE IF ecc_i.f.nan
                  THEN Selected(rkey, ecc_i.f, seen1)
             ELSE ScanRuns(runs, Tail(rest), run_key, e, seen1)

\* runs: run key -> id_eccentricity string, "R01" among the keys
get_runkey_lowest_eccentricity(runs) ==
    LET rest  == KeysInOrder(DOMAIN runs \ {"R01"}, 1)
        first == cast_to_float(runs["R01"])
    IN  IF first.err THEN SelectRaised({"R01"})
        ELSE IF first.f.nan THEN Selected("R01", first.f, {"R01"})
        ELSE ScanRuns(runs, rest, "R01", first.f, {"R01"})

-----------------------------------------------------------------------------
(* Channel selection *)

\* the radius reported for the channel extracted at infinity
InfRadius == 99999

NamePrefix == <<"R", "h", "_", "l", "2", "_", "m", "2", "_", "r">>

TxtSuffix == <<".", "t", "x", "t">>

InfMarker == <<"I", "n", "f">>

\* name of the artifact file for radius rext: f'Rh_l2_m2_r{rext:05d}.txt'
ArtifactName(rext) == NamePrefix \o Format05d(rext) \o TxtSuffix

\* name of the channel extracted at infinity
InfChannel == NamePrefix \o InfMarker \o TxtSuffix

\* Python's max() of a non-empty set of strings
MaxKey(names) == CHOOSE k \in names : \A o \in names : ~StrLess(k, o)

\* rext_key[-8:-3]: the slice taken one character too far to the right
FiniteRadiusShifted(rext_key) ==
    IntOf(SubSeq(rext_key, Len(rext_key) - 7, Len(rext_key) - 3))

\* int(rext_key[-9:-4])
FiniteRadius(rext_key) ==
    IntOf(SubSeq(rext_key, Len(rext_key) - 8, Len(rext_key) - 4))

\* extractions: the names of the channels of 'rh_22'
get_highest_r_extraction(extractions) ==
    LET rext_key == MaxKey(extractions)
    IN  [rext_key |-> rext_key,
         rext     |-> IF Contains(rext_key, InfMarker) THEN InfRadius
                      ELSE FiniteRadius(rext_key)]

-----------------------------------------------------------------------------
(* Directory scan *)

\* Path.stem of a file name: the name without its last suffix
Stem(name) == SubSeq(name, 1, Len(name) - Len(TxtSuffix))

\* int(file.stem[-5:])
StemRadius(name) ==
    LET stem == Stem(name) IN IntOf(SubSeq(stem, Len(stem) - 4, Len(stem)))

\* the tokens of the id_eccentricity line of a metadata.txt holding value v
EccentricityLine(v) ==
    IF v = "" THEN <<"id_eccentricity", "=">> ELSE <<"id_eccentricity", "=", v>>

\* _read_eccentricity on a metadata.txt whose id_eccentricity value is v
read_eccentricity(v) ==
    LET line    == EccentricityLine(v)
        ecc_txt == line[Len(line)]
        parsed  == Float(ecc_txt)
    IN  IF parsed.err THEN NaN ELSE parsed.f

EmptyDict == <<>>

\* d[key][run] = rec, creating d[key] when it is missing
SetItem(d, key, run, rec) ==
    LET old == IF key \in DOMAIN d THEN d[key] ELSE EmptyDict
    IN  [k \in DOMAIN d \cup {key} |->
            IF k = key
            THEN [r \in DOMAIN old \cup {run} |-> IF r = run THEN rec ELSE old[r]]
            ELSE d[k]]

\* the test that skips a file: a record of the pair exists with a larger radius
SkipsFileReversed(txt_files, key, run, rext) ==
    /\ key \in DOMAIN txt_files
    /\ run \in DOMAIN txt_files[key]
    /\ rext > StemRadius(txt_files[key][run].file.name)

SkipsFile(txt_files, key, run, rext) ==
    /\ key \in DOMAIN txt_files
    /\ run \in DOMAIN txt_files[key]
    /\ rext < StemRadius(txt_files[key][run].file.name)

\* the loop of _look_for_existing_strains over the files in the order given;
\* md is the id_eccentricity value of each run directory's metadata.txt
RECURSIVE ScanFiles(_, _, _)
ScanFiles(files, md, txt_files) ==
    IF files = <<>> THEN txt_files
    ELSE LET file == Head(files)
             key  == Replace(file.dir, "_", ":")
             run  == file.run
             e    == read_eccentricity(md[file.dir][run])
             rext == StemRadius(file.name)
         IN  IF SkipsFile(txt_files, key, run, rext)
             THEN ScanFiles(Tail(files), md, txt_files)
             ELSE ScanFiles(Tail(files), md,
                      SetItem(txt_files, key, run,
                              [file |-> file, eccentricity |-> e,
                               r_extraction |-> rext]))

\* an order in which rglob may yield the files
RECURSIVE GlobOrder(_)
GlobOrder(files) ==
    IF files = {} THEN <<>>
    ELSE LET f == CHOOSE x \in files : TRUE
         IN  <<f>> \o GlobOrder(files \ {f})

look_for_existing_strains(files, md) == ScanFiles(GlobOrder(files), md, EmptyDict)

-----------------------------------------------------------------------------
(* The manager: __init__ and download_strains *)

Sims == {<<"B", ":", "1">>, <<"T", ":", "2">>}

\* the directory of a simulation under db_path
DirOf(key) == Replace(key, ":", "_")

\* the runs of a simulation of the manager model
SimRuns == {"R01", "R02"}

\* the metadata a synchronization may bring: id_eccentricity of each run
SyncedMetadata ==
    {[r \in SimRuns |-> IF r = "R01" THEN "0.01" ELSE "0.03"],
     [r \in SimRuns |-> IF r = "R01" THEN "0.03" ELSE "0.01"],
     [r \in SimRuns |-> IF r = "R01" THEN "0.03" ELSE ""],
     [r \in SimRuns |-> IF r = "R01" THEN "0.01" ELSE "abc"]}

\* the channel sets of 'rh_22' a synchronization may bring
SyncedChannels ==
    {{ArtifactName(100), ArtifactName(250)},
     {ArtifactName(100), InfChannel}}

\* the key lists download_strains is called with
KeyLists == {<<s>> : s \in Sims} \cup {<<s, t>> : s \in Sims, t \in Sims}

NoKey == <<>>

NoFile == [dir |-> <<>>, run |-> "", name |-> <<>>]

NoSnapshot == <<>>

\* the steps of one iteration of download_strains, in the order of the code
Steps == <<"sync", "run", "channel", "write", "insert", "purge">>

\* the test of line 157 with its 'not' dropped
SkipsKeyWhenOverwriting(ow, key, index) == ow /\ key \in DOMAIN index

SkipsKey(ow, key, index) == (~ow) /\ key \in DOMAIN index

\* the test of line 183 that purges the raw data
PurgesAlways(keep) == TRUE

Purges(keep) == ~keep

\* lines 176-181: self.downloaded[skey] = {}; self.downloaded[skey][runkey] = rec
UpdateIndex(index, key, run, rec) ==
    [k \in DOMAIN index \cup {key} |->
        IF k = key THEN [r \in {run} |-> rec] ELSE index[k]]

Locals == <<skey, runkey, ecc, data, ofile>>

Args == <<overwrite, keep_h5>>

FunctionVars == <<input, output>>

History == <<done, failed>>

\* the locals of an iteration once it is over
IterationCleared ==
    /\ runkey' = ""
    /\ ecc' = NaN
    /\ data' = {}
    /\ ofile' = NoFile
    /\ frozen' = NoSnapshot

\* no call of download_strains is under way
Quiescent ==
    /\ h5 = [s \in Sims |-> FALSE]
    /\ simkeys = <<>>
    /\ skey = NoKey
    /\ overwrite = FALSE
    /\ keep_h5 = FALSE
    /\ runkey = ""
    /\ ecc = NaN
    /\ data = {}
    /\ ofile = NoFile
    /\ log = <<>>
    /\ raised = "none"
    /\ done = {}
    /\ failed = {}
    /\ frozen = NoSnapshot
    /\ nkeys = 0

\* the manager built on an empty db_path
Init ==
    /\ Quiescent
    /\ disk = {}
    /\ meta = EmptyDict
    /\ downloaded = look_for_existing_strains(disk, meta)
    /\ pc = "idle"
    /\ input = <<>>
    /\ output = <<>>

\* __init__ on the same db_path: the index is rebuilt by the scan
Restart ==
    /\ pc = "idle"
    /\ downloaded' = look_for_existing_strains(disk, meta)
    /\ UNCHANGED <<disk, meta, h5, pc, simkeys, Locals, Args, log, raised,
                   History, frozen, nkeys, FunctionVars>>

\* download_strains(keys, keep_h5=keep, overwrite=ow) is called
Call(keys, ow, keep) ==
    /\ pc = "idle"
    /\ nkeys + Len(keys) <= MaxKeys
    /\ nkeys' = nkeys + Len(keys)
    /\ simkeys' = keys
    /\ overwrite' = ow
    /\ keep_h5' = keep
    /\ pc' = "loop"
    /\ UNCHANGED <<downloaded, disk, meta, h5, Locals, log, raised, History,
                   frozen, FunctionVars>>

\* line 156, list exhausted: download_strains returns
Return ==
    /\ pc = "loop"
    /\ simkeys = <<>>
    /\ pc' = "idle"
    /\ overwrite' = FALSE
    /\ keep_h5' = FALSE
    /\ log' = <<>>
    /\ skey' = NoKey
    /\ UNCHANGED <<downloaded, disk, meta, h5, simkeys, runkey, ecc, data,
                   ofile, raised, History, frozen, nkeys, FunctionVars>>

\* lines 156-159: the next key is already in the index and is skipped
Skip ==
    /\ pc = "loop"
    /\ simkeys # <<>>
    /\ SkipsKey(overwrite, Head(simkeys), downloaded)
    /\ simkeys' = Tail(simkeys)
    /\ skey' = Head(simkeys)
    /\ log' = <<"skip">>
    /\ UNCHANGED <<downloaded, disk, meta, h5, pc, runkey, ecc, data, ofile,
                   Args, raised, History, frozen, nkeys, FunctionVars>>

\* lines 156-157: the next key is not skipped
Begin ==
    /\ pc = "loop"
    /\ simkeys # <<>>
    /\ ~SkipsKey(overwrite, Head(simkeys), downloaded)
    /\ skey' = Head(simkeys)
    /\ simkeys' = Tail(simkeys)
    /\ log' = <<>>
    /\ frozen' = [index |-> downloaded, disk |-> disk, h5 |-> h5]
    /\ pc' = "sync"
    /\ UNCHANGED <<downloaded, disk, meta, h5, runkey, ecc, data, ofile,
                   Args, raised, History, nkeys, FunctionVars>>

\* line 161: cdb.sync fetches the simulation; md is the metadata it brings
Sync(md) ==
    /\ pc = "sync"
    /\ meta' = [d \in DOMAIN meta \cup {DirOf(skey)} |->
                   IF d = DirOf(skey) THEN md ELSE meta[d]]
    /\ h5' = [h5 EXCEPT ![skey] = TRUE]
    /\ log' = Append(log, "sync")
    /\ pc' = "select"
    /\ UNCHANGED <<downloaded, disk, simkeys, Locals, Args, raised, History,
                   frozen, nkeys, FunctionVars>>

\* line 161: cdb.sync raises; the exception leaves download_strains.
\* partial: raw data fetched before the failure stays on disk
SyncFails(partial) ==
    /\ pc = "sync"
    /\ h5' = [h5 EXCEPT ![skey] = h5[skey] \/ partial]
    /\ raised' = "sync"
    /\ failed' = failed \cup {skey}
    /\ simkeys' = <<>>
    /\ pc' = "raised"
    /\ UNCHANGED <<downloaded, disk, meta, Locals, Args, log, done, frozen,
                   nkeys, FunctionVars>>

\* line 165, get_runkey_lowest_eccentricity returns
SelectRun ==
    /\ pc = "select"
    /\ LET sel == get_runkey_lowest_eccentricity(meta[DirOf(skey)])
       IN  /\ ~sel.raised
           /\ runkey' = sel.run_key
           /\ ecc' = sel.ecc
    /\ log' = Append(log, "run")
    /\ pc' = "read"
    /\ UNCHANGED <<downloaded, disk, meta, h5, simkeys, skey, data, ofile,
                   Args, raised, History, frozen, nkeys, FunctionVars>>

\* the reset of line 176 done before the selection of line 165
SelectRunFailsAfterReset ==
    /\ pc = "select"
    /\ get_runkey_lowest_eccentricity(meta[DirOf(skey)]).raised
    /\ downloaded' = [k \in DOMAIN downloaded \cup {skey} |->
                         IF k = skey THEN EmptyDict ELSE downloaded[k]]
    /\ raised' = "parse"
    /\ failed' = failed \cup {skey}
    /\ simkeys' = <<>>
    /\ pc' = "raised"
    /\ UNCHANGED <<disk, meta, h5, Locals, Args, log, done, frozen, nkeys,
                   FunctionVars>>

\* line 165, cast_to_float raises; the exception leaves download_strains
SelectRunFails ==
    /\ pc = "select"
    /\ get_runkey_lowest_eccentricity(meta[DirOf(skey)]).raised
    /\ raised' = "parse"
    /\ failed' = failed \cup {skey}
    /\ simkeys' = <<>>
    /\ pc' = "raised"
    /\ UNCHANGED <<downloaded, disk, meta, h5, Locals, Args, log, done,
                   frozen, nkeys, FunctionVars>>

\* lines 166-172: the channels are read, the highest is chosen, ofile is named
SelectChannel(channels) ==
    /\ pc = "read"
    /\ data' = channels
    /\ LET hi == get_highest_r_extraction(channels)
       IN  ofile' = [dir |-> DirOf(skey), run |-> runkey,
                     name |-> ArtifactName(hi.rext)]
    /\ log' = Append(log, "channel")
    /\ pc' = "write"
    /\ UNCHANGED <<downloaded, disk, meta, h5, simkeys, skey, runkey, ecc,
                   Args, raised, History, frozen, nkeys, FunctionVars>>

\* line 173: np.savetxt(ofile, ...)
WriteFile ==
    /\ pc = "write"
    /\ disk' = disk \cup {ofile}
    /\ log' = Append(log, "write")
    /\ pc' = "insert"
    /\ UNCHANGED <<downloaded, meta, h5, simkeys, Locals, Args, raised,
                   History, frozen, nkeys, FunctionVars>>

\* lines 176-181
Insert ==
    /\ pc = "insert"
    /\ downloaded' = UpdateIndex(downloaded, skey, runkey,
                         [file |-> ofile, eccentricity |-> ecc,
                          r_extraction |-> get_highest_r_extraction(data).rext])
    /\ log' = Append(log, "insert")
    /\ pc' = "clean"
    /\ UNCHANGED <<disk, meta, h5, simkeys, Locals, Args, raised, History,
                   frozen, nkeys, FunctionVars>>

\* lines 183-184 with _clean_h5_data: the raw data and .git are removed
Clean ==
    /\ pc = "clean"
    /\ Purges(keep_h5)
    /\ h5' = [h5 EXCEPT ![skey] = FALSE]
    /\ log' = Append(log, "purge")
    /\ done' = done \cup {skey}
    /\ pc' = "loop"
    /\ IterationCleared
    /\ UNCHANGED <<downloaded, disk, meta, simkeys, skey, Args, raised, failed,
                   nkeys, FunctionVars>>

\* lines 183-184 with keep_h5: nothing is removed
Keep ==
    /\ pc = "clean"
    /\ ~Purges(keep_h5)
    /\ done' = done \cup {skey}
    /\ pc' = "loop"
    /\ IterationCleared
    /\ UNCHANGED <<downloaded, disk, meta, h5, simkeys, skey, Args, log,
                   raised, failed, nkeys, FunctionVars>>

\* the caller of download_strains receives the exception
Caught ==
    /\ pc = "raised"
    /\ pc' = "idle"
    /\ raised' = "none"
    /\ overwrite' = FALSE
    /\ keep_h5' = FALSE
    /\ log' = <<>>
    /\ skey' = NoKey
    /\ IterationCleared
    /\ UNCHANGED <<downloaded, disk, meta, h5, simkeys, History, nkeys,
                   FunctionVars>>

Next ==
    \/ Restart
    \/ \E keys \in KeyLists, ow \in BOOLEAN, keep \in BOOLEAN : Call(keys, ow, keep)
    \/ Return
    \/ Skip
    \/ Begin
    \/ \E md \in SyncedMetadata : Sync(md)
    \/ \E partial \in BOOLEAN : SyncFails(partial)
    \/ SelectRun
    \/ SelectRunFails
    \/ \E channels \in SyncedChannels : SelectChannel(channels)
    \/ WriteFile
    \/ Insert
    \/ Clean
    \/ Keep
    \/ Caught

Spec == Init /\ [][Next]_vars

-----------------------------------------------------------------------------
(* The selection functions and the scan, each applied to bounded inputs *)

\* files in one tree handed to the scan
MaxFiles == 3

ManagerVars == <<h5, simkeys, Locals, Args, log, raised, History, frozen, nkeys>>

\* id_eccentricity strings: numerals, the not-a-number spellings, a non-numeral
EccentricityStrings == NumLiterals \cup {"", None, "NAN", "abc"}

\* run mappings: R01 and any other runs, each with an eccentricity string
RunMappings ==
    UNION {[D \cup {"R01"} -> EccentricityStrings] : D \in SUBSET RunSet}

InitSel ==
    /\ Quiescent
    /\ disk = {}
    /\ meta = EmptyDict
    /\ downloaded = EmptyDict
    /\ pc = "arg"
    /\ input \in RunMappings
    /\ output = <<>>

ApplySelectRun ==
    /\ pc = "arg"
    /\ output' = get_runkey_lowest_eccentricity(input)
    /\ pc' = "ret"
    /\ UNCHANGED <<downloaded, disk, meta, input, ManagerVars>>

SpecSel == InitSel /\ [][ApplySelectRun]_vars

\* radii of the finite channels of the model
ChannelRadii == {0, 100, 250, 400, 1000, 99999}

\* name of the channel extracted at radius r, as the slice of line 299 reads it
ChannelName(r) == NamePrefix \o Format05d(r) \o TxtSuffix

ChannelNames == {ChannelName(r) : r \in ChannelRadii} \cup {InfChannel}

InitChan ==
    /\ Quiescent
    /\ disk = {}
    /\ meta = EmptyDict
    /\ downloaded = EmptyDict
    /\ pc = "arg"
    /\ input \in (SUBSET ChannelNames) \ {{}}
    /\ output = <<>>

ApplySelectChannel ==
    /\ pc = "arg"
    /\ output' = get_highest_r_extraction(input)
    /\ pc' = "ret"
    /\ UNCHANGED <<downloaded, disk, meta, input, ManagerVars>>

SpecChan == InitChan /\ [][ApplySelectChannel]_vars

ScanDirs == {DirOf(s) : s \in Sims}

ScanRadii == {100, 250, 99999}

\* the artifact files a tree may hold
TreeFiles ==
    {[dir |-> d, run |-> r, name |-> ArtifactName(x)] :
        d \in ScanDirs, r \in SimRuns, x \in ScanRadii}

\* the metadata.txt values of the run directories of one simulation
TreeMetadata ==
    {[r \in SimRuns |-> IF r = "R01" THEN "0.03" ELSE ""],
     [r \in SimRuns |-> IF r = "R01" THEN "abc" ELSE "0.03"],
     [r \in SimRuns |-> IF r = "R01" THEN "NAN" ELSE "0.010"]}

Trees == {t \in SUBSET TreeFiles : Cardinality(t) \in 1..MaxFiles}

\* the orders in which rglob may yield a set of files
Orders(files) ==
    {o \in [1..Cardinality(files) -> files] :
        \A i, j \in 1..Cardinality(files) : o[i] = o[j] => i = j}

InitScan ==
    /\ Quiescent
    /\ disk \in Trees
    /\ meta \in [ScanDirs -> TreeMetadata]
    /\ downloaded = EmptyDict
    /\ pc = "arg"
    /\ input = disk
    /\ output = <<>>

\* _look_for_existing_strains with the files yielded in the order given
ApplyScan(order) ==
    /\ pc = "arg"
    /\ downloaded' = ScanFiles(order, meta, EmptyDict)
    /\ pc' = "ret"
    /\ UNCHANGED <<disk, meta, input, output, ManagerVars>>

NextScan == \E order \in Orders(disk) : ApplyScan(order)

SpecScan == InitScan /\ [][NextScan]_vars

-----------------------------------------------------------------------------
(* Properties of the run selection (SpecSel) *)

NotANumber(s) == s \in {"", None, "NAN"}

Numeric(s) == s \in NumLiterals

Unparsable(s) == ~Numeric(s) /\ ~NotANumber(s)

\* scan order: R01 first, then the other runs in key order
Before(q, r) == RunIndex(q) < RunIndex(r)

HasNaN(runs) == \E r \in DOMAIN runs : NotANumber(runs[r])

FirstNaN(runs) ==
    CHOOSE r \in DOMAIN runs :
        /\ NotANumber(runs[r])
        /\ \A q \in DOMAIN runs : Before(q, r) => ~NotANumber(runs[q])

ParsesBefore(runs, r) ==
    \A q \in DOMAIN runs : Before(q, r) => ~Unparsable(runs[q])

UpTo(runs, r) == {q \in DOMAIN runs : q = r \/ Before(q, r)}

\* R01 is numeric and lowest among the numeric runs, a later run is empty
ReferenceMinimalWithEmpty(runs) ==
    /\ Numeric(runs["R01"])
    /\ \A q \in DOMAIN runs :
          Numeric(runs[q]) => LiteralValue(runs["R01"]) <= LiteralValue(runs[q])
    /\ \E q \in DOMAIN runs \ {"R01"} : runs[q] = ""

\* C3 as stated: when the reference run R01 is numeric and minimal and a
\* later run has an empty eccentricity, the selection returns R01 with R01's
\* eccentricity.
C3_ReferenceKept ==
    (pc = "ret" /\ ReferenceMinimalWithEmpty(input)) =>
        /\ ~output.raised
        /\ output.run_key = "R01"
        /\ output.ecc = Num(LiteralValue(input["R01"]))

\* C3 amended: when the reference run R01 is numeric and minimal and a later
\* run has an empty eccentricity, the selection returns the first run in scan
\* order whose eccentricity is not-a-number, with NaN; if a run scanned before
\* that one is not a numeral the parse error propagates instead.
C3_FirstNaNReplacesMinimalReference ==
    (pc = "ret" /\ ReferenceMinimalWithEmpty(input)) =>
        IF ParsesBefore(input, FirstNaN(input))
        THEN /\ ~output.raised
             /\ output.run_key = FirstNaN(input)
             /\ output.run_key # "R01"
             /\ output.ecc = NaN
        ELSE output.raised

\* the example of the claim: {R01: "0.01", R02: "0.03", R03: ""} gives R03
C3_Witness ==
    /\ pc = "ret"
    /\ input = [r \in {"R01", "R02", "R03"} |->
                   IF r = "R01" THEN "0.01" ELSE IF r = "R02" THEN "0.03" ELSE ""]
    /\ output.run_key = "R03"
    /\ output.ecc = NaN

\* C4 as stated: whenever some run has a not-a-number eccentricity, the
\* selection returns the first such run in scan order with NaN and inspects
\* no run after it.
C4_FirstNaNAlways ==
    (pc = "ret" /\ HasNaN(input)) =>
        /\ ~output.raised
        /\ output.run_key = FirstNaN(input)
        /\ output.ecc = NaN
        /\ output.inspected = UpTo(input, FirstNaN(input))

\* C4 amended: whenever some run has a not-a-number eccentricity and every
\* run scanned before the first such run parses, the selection returns that
\* run with NaN, even after a numeric improvement, and inspects no run after
\* it; when a run scanned before it is not a numeral, the parse error
\* propagates and no run after the failing one is inspected.
C4_FirstNaNWinsUnlessParseError ==
    (pc = "ret" /\ HasNaN(input)) =>
        IF ParsesBefore(input, FirstNaN(input))
        THEN /\ ~output.raised
             /\ output.run_key = FirstNaN(input)
             /\ output.ecc = NaN
             /\ output.inspected = UpTo(input, FirstNaN(input))
        ELSE /\ output.raised
             /\ \E q \in DOMAIN input :
                   /\ Unparsable(input[q])
                   /\ output.inspected = UpTo(input, q)

\* a not-a-number run wins after R02 had become the numeric best
C4_Witness ==
    /\ pc = "ret"
    /\ input = [r \in {"R01", "R02", "R03"} |->
                   IF r = "R01" THEN "0.05" ELSE IF r = "R02" THEN "0.01" ELSE "NAN"]
    /\ output.run_key = "R03"
    /\ output.ecc = NaN
    /\ ~output.raised

AllNumeric(runs) == \A r \in DOMAIN runs : Numeric(runs[r])

\* C5: when every run has a numeric eccentricity, the selected run's
\* eccentricity is lowest, and among the runs with that value it is the first
\* in scan order; its reported value is its own.
C5_MinimumFirstWins ==
    (pc = "ret" /\ AllNumeric(input)) =>
        /\ ~output.raised
        /\ output.run_key \in DOMAIN input
        /\ output.ecc = Num(LiteralValue(input[output.run_key]))
        /\ \A q \in DOMAIN input :
              /\ LiteralValue(input[output.run_key]) <= LiteralValue(input[q])
              /\ LiteralValue(input[q]) = LiteralValue(input[output.run_key])
                    => ~Before(q, output.run_key)

\* R02 and R03 tie below R01 and R02 is kept
C5_Witness ==
    /\ pc = "ret"
    /\ input = [r \in {"R01", "R02", "R03"} |->
                   IF r = "R01" THEN "0.03" ELSE IF r = "R02" THEN "0.01" ELSE "0.010"]
    /\ output.run_key = "R02"

-----------------------------------------------------------------------------
(* Properties of the channel selection (SpecChan) *)

\* the radius a finite channel name was built from
EncodedRadius(name) == CHOOSE r \in ChannelRadii : ChannelName(r) = name

\* the infinite radius ranks above every finite one
Rank(name) == IF name = InfChannel THEN 100000 ELSE EncodedRadius(name)

\* C6: the channel returned has the highest radius of the set, the channel at
\* infinity ranking above all finite ones, and the radius reported is the one
\* its name encodes, or 99999 for the channel at infinity.
C6_HighestRadius ==
    pc = "ret" =>
        /\ output.rext_key \in input
        /\ \A n \in input : Rank(n) <= Rank(output.rext_key)
        /\ output.rext = IF output.rext_key = InfChannel THEN 99999
                         ELSE EncodedRadius(output.rext_key)

\* the channel at infinity beats radius 99999 and radius 100
C6_Witness ==
    /\ pc = "ret"
    /\ input = {ChannelName(100), ChannelName(99999), InfChannel}
    /\ output.rext_key = InfChannel
    /\ output.rext = 99999

-----------------------------------------------------------------------------
(* Properties of the scan (SpecScan) *)

KeyOfDir(d) == CHOOSE s \in Sims : DirOf(s) = d

FilesOf(files, d, r) == {f \in files : f.dir = d /\ f.run = r}

\* the radius an artifact file name was built from
FileRadius(f) == CHOOSE x \in ScanRadii : ArtifactName(x) = f.name

Largest(files) == CHOOSE f \in files : \A g \in files : FileRadius(g) <= FileRadius(f)

\* C7: whatever the order of the scan, every (simulation, run) pair with
\* files in the tree gets exactly one record, that of its file of largest
\* radius, carrying that radius; no other record exists and no file is removed.
C7_ScanKeepsLargest ==
    pc = "ret" =>
        /\ disk = input
        /\ DOMAIN downloaded = {KeyOfDir(f.dir) : f \in disk}
        /\ \A d \in ScanDirs :
              KeyOfDir(d) \in DOMAIN downloaded =>
                 /\ DOMAIN downloaded[KeyOfDir(d)] =
                        {f.run : f \in {g \in disk : g.dir = d}}
                 /\ \A r \in DOMAIN downloaded[KeyOfDir(d)] :
                       LET best == Largest(FilesOf(disk, d, r))
                           rec  == downloaded[KeyOfDir(d)][r]
                       IN  /\ rec.file = best
                           /\ rec.r_extraction = FileRadius(best)

\* a pair with files of radius 100 and 250: the record is the radius-250 file
C7_Witness ==
    /\ pc = "ret"
    /\ \E f, g \in disk :
          /\ f.dir = g.dir /\ f.run = g.run
          /\ FileRadius(f) = 100 /\ FileRadius(g) = 250
          /\ FilesOf(disk, f.dir, f.run) = {f, g}
          /\ downloaded[KeyOfDir(f.dir)][f.run].file = g
          /\ downloaded[KeyOfDir(f.dir)][f.run].r_extraction = 250

-----------------------------------------------------------------------------
(* Properties of the manager (Spec) *)

\* C1: a key materialized before, met again with overwrite off, is skipped:
\* no sync, no selection, no write and no purge follow, and the index, the
\* files, the metadata and the raw data stay as they are.
C1_SecondMaterializeSkips ==
    [][(pc = "loop" /\ simkeys # <<>> /\ ~overwrite /\ Head(simkeys) \in done) =>
          /\ pc' = "loop"
          /\ skey' = Head(simkeys)
          /\ log' = <<"skip">>
          /\ UNCHANGED <<downloaded, disk, meta, h5>>]_vars

\* a key materialized earlier has just been skipped
C1_Witness ==
    /\ pc = "loop"
    /\ log = <<"skip">>
    /\ ~overwrite
    /\ skey \in done

\* C2 as stated: after the initial scan and any sequence of successful
\* materializations, scanning the tree again yields the in-memory index.
C2_RescanYieldsIndex ==
    (pc = "idle" /\ failed = {}) =>
        look_for_existing_strains(disk, meta) = downloaded

\* C8 as stated: every simulation of the index maps to exactly one run.
C8_OneRunPerSimulation ==
    \A k \in DOMAIN downloaded : Cardinality(DOMAIN downloaded[k]) = 1

\* the record an iteration makes out of what it fetched
FetchedRecord(key, md, channels) ==
    LET sel == get_runkey_lowest_eccentricity(md)
        hi  == get_highest_r_extraction(channels)
    IN  [r \in {sel.run_key} |->
            [file |-> [dir |-> DirOf(key), run |-> sel.run_key,
                       name |-> ArtifactName(hi.rext)],
             eccentricity |-> sel.ecc,
             r_extraction |-> hi.rext]]

\* C9: when the sync or the parsing of the run selection fails for a key, the
\* exception leaves download_strains (the loop is abandoned, nothing is
\* retried), the index and the files are as they were when the key was
\* started, no file is written and no raw data is purged; and a
\* materialization that succeeds, after a failure or not, inserts the record
\* made of what that attempt fetched.
C9_FailureLeavesIndexAndRetryIsClean ==
    /\ raised # "none" =>
          /\ pc = "raised"
          /\ simkeys = <<>>
          /\ skey \in failed
          /\ downloaded = frozen.index
          /\ disk = frozen.disk
          /\ \A s \in Sims : frozen.h5[s] => h5[s]
          /\ raised = "sync" => log = <<>>
          /\ raised = "parse" => (h5[skey] /\ log = <<"sync">>)
    /\ pc = "raised" => raised \in {"sync", "parse"}
    /\ pc = "clean" =>
          /\ downloaded[skey] = FetchedRecord(skey, meta[DirOf(skey)], data)
          /\ \A k \in DOMAIN downloaded \ {skey} :
                k \in DOMAIN frozen.index /\ downloaded[k] = frozen.index[k]

\* a key whose materialization failed earlier has now been inserted
C9_Witness ==
    /\ pc = "clean"
    /\ skey \in failed
    /\ skey \in DOMAIN frozen.index

Prefix(n) == SubSeq(Steps, 1, n)

\* C10: the steps of a key that is not skipped happen in the order sync, run
\* selection, channel selection, write, insert, purge; the raw data is purged
\* only after the file is written and the record inserted, for every such key
\* when keep_h5 is off, and never when keep_h5 is on or the key is skipped.
C10_StepOrderAndPurge ==
    /\ [](/\ log = <<"skip">> \/ \E n \in 0..Len(Steps) : log = Prefix(n)
          /\ pc = "sync" => log = Prefix(0)
          /\ pc = "select" => log = Prefix(1)
          /\ pc = "read" => log = Prefix(2)
          /\ pc = "write" => log = Prefix(3) /\ h5[skey]
          /\ pc = "insert" => log = Prefix(4) /\ ofile \in disk /\ h5[skey]
          /\ pc = "clean" =>
                /\ log = Prefix(5)
                /\ ofile \in disk
                /\ downloaded[skey][runkey].file = ofile
                /\ h5[skey]
          /\ (pc = "loop" /\ Len(log) > 1) =>
                /\ log = IF keep_h5 THEN Prefix(5) ELSE Prefix(6)
                /\ h5[skey] = keep_h5
                /\ \A r \in DOMAIN downloaded[skey] :
                      downloaded[skey][r].file \in disk)
    /\ [][\A s \in Sims :
             (h5[s] /\ ~h5'[s]) =>
                /\ s = skey
                /\ pc = "clean"
                /\ ~keep_h5
                /\ log' = Steps]_vars

\* a key has been purged after its file was written and its record inserted
C10_Witness ==
    /\ pc = "loop"
    /\ log = Steps
    /\ ~keep_h5
    /\ ~h5[skey]
    /\ skey \in DOMAIN downloaded

=============================================================================
